---- MODULE Spec2Model ----
(***************************************************************************)
(* A model of the backoff library (github.com/alexjoedt/backoff):          *)
(* the three Sequence implementations Constant, Exponential and            *)
(* Decorrelated, the jitter strategies, the functional options and the     *)
(* helpers applyBounds and randBetween.                                    *)
(*                                                                         *)
(* time.Duration is a signed 64-bit integer in Go.  The model keeps the    *)
(* two's-complement arithmetic but at Width bits, so that wrap-around is   *)
(* reachable: MaxInt64 and MinInt64 below are math.MaxInt64 and            *)
(* math.MinInt64 at that width.  One model tick stands for 6 seconds, so   *)
(* the 30 s default ceiling of Decorrelated is 5 ticks and stays as far    *)
(* from overflow under the growth factors as it is in the program.         *)
(* float64 keeps MantBits significant bits (53 of 64 in Go).               *)
(* Draws from the random source are nondeterministic choices.              *)
(***************************************************************************)
EXTENDS Integers, Sequences, FiniteSets, TLC

\* ------------------------------------------------------------------ bounds

\* Width in bits of the model's int64 / time.Duration.
Width == 5

\* Calls to Next followed within one retry cycle (since New or Reset).
MaxCalls == 4

\* ------------------------------------------------------ machine arithmetic

Modulus == 2^Width

MaxInt64 == 2^(Width - 1) - 1

MinInt64 == -(2^(Width - 1))

Duration == MinInt64..MaxInt64

\* Signed integer arithmetic wraps around (Go: no trap on overflow).
Wrap(x) == ((x - MinInt64) % Modulus) + MinInt64

\* Significant bits of a float64 at the model's width.
MantBits == Width - 2

\* A float64 value v is held as the integer 2*v (every value met here is a
\* multiple of 1/2).  RoundF rounds such a value to MantBits significant bits,
\* ties to even, as every float64 conversion and operation does.
FExp(h) ==
    CHOOSE k \in 0..(3 * Width) :
        /\ h < 2^(MantBits + k)
        /\ (k = 0 \/ h >= 2^(MantBits + k - 1))

RoundHalfEven(h, u) ==
    LET q == h \div u
        r == h % u
    IN  IF 2 * r < u THEN q
        ELSE IF 2 * r > u THEN q + 1
        ELSE IF q % 2 = 0 THEN q ELSE q + 1

RoundF(h) ==
    IF h < 0
    THEN -(2^FExp(-h) * RoundHalfEven(-h, 2^FExp(-h)))
    ELSE 2^FExp(h) * RoundHalfEven(h, 2^FExp(h))

\* float64(d) for an int64 d.
Float64(d) == RoundF(2 * d)

\* float64 multiplication x * f, f a float64 factor num/den with den in {1,2}.
FloatMul(x, f) == RoundF((x * f.num * (2 \div f.den)) \div 2)

\* int64(x) / time.Duration(x) for a float64 x: truncation toward zero; a value
\* out of range converts to an implementation-dependent result (MinInt64 on
\* amd64, MaxInt64 on arm64).
ToDuration(x) ==
    LET t == IF x >= 0 THEN x \div 2 ELSE -((-x) \div 2)
    IN  IF t \in Duration THEN {t} ELSE {MinInt64, MaxInt64}

Max(a, b) == IF a >= b THEN a ELSE b

\* rand.Int64N(n): panics for n <= 0, else any value of [0, n).
Int64NPanics(n) == n <= 0

Int64N(n) == 0..(n - 1)

\* ------------------------------------------------------------------ jitter

NoneJitterApply(d) == {d}

\* FullJitter.Apply without the + 1 on the draw.
FullJitterApply_FromZero(d) ==
    IF d <= 0 THEN {0} ELSE {Wrap(x) : x \in Int64N(d)}

FullJitterApply(d) ==
    IF d <= 0 THEN {0} ELSE {Wrap(x + 1) : x \in Int64N(d)}

\* EqualJitter.Apply drawing from 0 instead of from the fixed half.
EqualJitterApply_FromZero(d) ==
    IF d <= 0 THEN {0} ELSE {Wrap(x) : x \in Int64N(Wrap(d + 1))}

\* EqualJitter.Apply adding a draw from the whole of d to the fixed half.
EqualJitterApply_WholeSpan(d) ==
    IF d <= 0
    THEN {0}
    ELSE {Wrap(d \div 2 + x) : x \in Int64N(Wrap(d + 1))}

EqualJitterApply(d) ==
    IF d <= 0
    THEN {0}
    ELSE LET half == d \div 2
         IN  {Wrap(half + x) : x \in Int64N(Wrap(Wrap(d - half) + 1))}

\* The built-in implementations of the Jitter interface.
Jitter == {"NoneJitter", "FullJitter", "EqualJitter"}

\* j.Apply(d, r): the set of results over the draws of r.
Apply(j, d) ==
    CASE j = "NoneJitter" -> NoneJitterApply(d)
      [] j = "FullJitter" -> FullJitterApply(d)
      [] j = "EqualJitter" -> EqualJitterApply(d)

\* ----------------------------------------------------------------- options

\* An Option is a function on *options; it is held as the field it sets and the
\* value it sets it to.
WithMaxInterval(d) == [field |-> "maxInterval", value |-> d]

WithMinInterval(d) == [field |-> "minInterval", value |-> d]

WithMaxRetries(v) == [field |-> "maxRetries", value |-> v]

WithMaxElapsed(d) == [field |-> "maxElapsed", value |-> d]

WithJitter == [field |-> "jitter", value |-> "EqualJitter"]

WithJitterStrategy(j) == [field |-> "jitter", value |-> j]

RECURSIVE applyOptionsFrom(_, _)
applyOptionsFrom(o, opts) ==
    IF opts = <<>>
    THEN o
    ELSE applyOptionsFrom([o EXCEPT ![Head(opts).field] = Head(opts).value],
                          Tail(opts))

applyOptions(opts) ==
    applyOptionsFrom([maxRetries |-> -1,
                      maxElapsed |-> 0,
                      maxInterval |-> 0,
                      minInterval |-> 0,
                      jitter |-> "NoneJitter"],
                     opts)

\* ----------------------------------------------------------------- helpers

\* applyBounds without its floor at min.
applyBounds_NoFloor(d, min, max) ==
    LET d2 == IF max > 0 /\ d > max THEN max ELSE d
    IN  IF d2 < 0 THEN 0 ELSE d2

\* applyBounds without its ceiling at max.
applyBounds_NoCeiling(d, min, max) ==
    LET d1 == IF min > 0 /\ d < min THEN min ELSE d
    IN  IF d1 < 0 THEN 0 ELSE d1

\* applyBounds lowering to max before it raises to min.
applyBounds_CeilingFirst(d, min, max) ==
    LET d1 == IF max > 0 /\ d > max THEN max ELSE d
        d2 == IF min > 0 /\ d1 < min THEN min ELSE d1
    IN  IF d2 < 0 THEN 0 ELSE d2

applyBounds(d, min, max) ==
    LET d1 == IF min > 0 /\ d < min THEN min ELSE d
        d2 == IF max > 0 /\ d1 > max THEN max ELSE d1
    IN  IF d2 < 0 THEN 0 ELSE d2

\* randBetween panics inside r.Int64N when int64(span)+1 is not positive.
randBetweenPanics(low, high) ==
    /\ ~(high <= low)
    /\ Int64NPanics(Wrap(Wrap(high - low) + 1))

\* randBetween drawing from one duration more than the span.
randBetween_Overshoot(low, high) ==
    IF high <= low
    THEN {low}
    ELSE {Wrap(low + x) : x \in Int64N(Wrap(Wrap(high - low) + 2))}

randBetween(low, high) ==
    IF high <= low
    THEN {low}
    ELSE {Wrap(low + x) : x \in Int64N(Wrap(Wrap(high - low) + 1))}

\* --------------------------------------------------------------- factors

\* A float64 growth factor num/den.
FactorLeqOne(f) == f.num <= f.den

\* The float64 literals 2.0 and 3.0.
Float2 == [num |-> 2, den |-> 1]

Float3 == [num |-> 3, den |-> 1]

\* time.Duration(f) for a factor f > 1.0: the fraction is dropped.
FactorToDuration(f) == f.num \div f.den

\* 30 * time.Second, in ticks of 6 s.
DefaultMaxInterval == 5

\* ------------------------------------------------------------ constructors

\* NewConstant passing the interval through the bounds of the options.
NewConstant_BoundedInterval(d, opts) ==
    [type |-> "Constant",
     interval |-> applyBounds(d, applyOptions(opts).minInterval,
                              applyOptions(opts).maxInterval),
     options |-> applyOptions(opts),
     retries |-> 0, elapsed |-> 0]

NewConstant(d, opts) ==
    [type |-> "Constant",
     interval |-> d,
     options |-> applyOptions(opts),
     retries |-> 0, elapsed |-> 0]

\* NewExponential keeping whatever factor it is given.
NewExponential_KeepsFactor(base, factor, opts) ==
    [type |-> "Exponential",
     options |-> applyOptions(opts),
     base |-> base,
     factor |-> factor,
     retries |-> 0, elapsed |-> 0, current |-> 0]

NewExponential(base, factor, opts) ==
    [type |-> "Exponential",
     options |-> applyOptions(opts),
     base |-> base,
     factor |-> IF FactorLeqOne(factor) THEN Float2 ELSE factor,
     retries |-> 0, elapsed |-> 0, current |-> 0]

\* NewDecorrelated without its default for maxInterval.
NewDecorrelated_NoDefault(initial, factor, opts) ==
    [type |-> "Decorrelated",
     initial |-> initial,
     factor |-> IF FactorLeqOne(factor) THEN Float3 ELSE factor,
     options |-> applyOptions(opts),
     retries |-> 0, elapsed |-> 0, prev |-> 0]

NewDecorrelated(initial, factor, opts) ==
    LET o == applyOptions(opts)
    IN  [type |-> "Decorrelated",
         initial |-> initial,
         factor |-> IF FactorLeqOne(factor) THEN Float3 ELSE factor,
         options |-> IF o.maxInterval <= 0
                     THEN [o EXCEPT !.maxInterval = DefaultMaxInterval]
                     ELSE o,
         retries |-> 0, elapsed |-> 0, prev |-> 0]

\* ------------------------------------------------------------------- state

VARIABLES
    seq,    \* the Sequence instance: a Constant, Exponential or Decorrelated
    args,   \* what the constructor was called with
    op,     \* the last operation: "New", "Next", "Reset", or "Panic"
    ret,    \* what the last call of Next returned
    local,  \* the locals of that call where it returned: [base, d]
    calls,  \* calls of Next that returned since New or the last Reset
    succ,   \* those among them that returned ok = true
    sum,    \* the sum of the delays those returned
    reused, \* Reset has been called after a call of Next returned
    det     \* instances run side by side on the words of a seeded source

vars == <<seq, args, op, ret, local, calls, succ, sum, reused, det>>

\* The constructor arguments followed.
LargeDuration == 2^(Width - 2)

DurationArgs == {-2, 0, 2, 3, LargeDuration}

FactorArgs == {[num |-> 1, den |-> 2], [num |-> 3, den |-> 2], Float2}

MaxRetriesArgs == {-1, 0, 2}

MaxElapsedArgs == {0, 5}

MinIntervalArgs == {-2, 0, 2}

MaxIntervalArgs == {-1, 0, 3}

OptionLists ==
    {<<WithMaxRetries(n), WithMaxElapsed(e), WithMinInterval(lo),
       WithMaxInterval(hi), WithJitterStrategy(j)>> :
        n \in MaxRetriesArgs, e \in MaxElapsedArgs, lo \in MinIntervalArgs,
        hi \in MaxIntervalArgs, j \in Jitter}

\* Option lists at the edges: the largest ceiling, or a ceiling that is the
\* floor, and nothing else that ends the cycle.
EdgeOptionLists ==
    {<<WithMinInterval(lo), WithMaxInterval(MaxInt64)>> :
        lo \in MinIntervalArgs}
        \cup {<<WithMinInterval(3), WithMaxInterval(3)>>}

\* The growth factors followed at the edges.
EdgeFactorArgs == {f \in FactorArgs : ~FactorLeqOne(f)} \cup {Float3}

NoFactor == [num |-> 0, den |-> 1]

\* Locals not assigned when Next returns hold Go's zero value.
NoLocals == [base |-> 0, d |-> 0]

\* The instance s as the constructor called with a returns it.
Built(s, a) ==
    /\ seq = s
    /\ args = a
    /\ op = "New"
    /\ ret = [delay |-> 0, ok |-> TRUE]
    /\ local = NoLocals
    /\ calls = 0
    /\ succ = 0
    /\ sum = 0
    /\ reused = FALSE

\* Nothing runs beside the instance.
NoDet == [op |-> "None"]

Fresh(s, a) == Built(s, a) /\ det = NoDet

Init ==
    \/ \E d \in DurationArgs, opts \in OptionLists :
           \/ Fresh(NewConstant(d, opts),
                    [d |-> d, factor |-> NoFactor, opts |-> opts])
           \/ \E f \in FactorArgs :
                  \/ Fresh(NewExponential(d, f, opts),
                           [d |-> d, factor |-> f, opts |-> opts])
                  \/ Fresh(NewDecorrelated(d, f, opts),
                           [d |-> d, factor |-> f, opts |-> opts])
    \/ \E opts \in EdgeOptionLists, f \in EdgeFactorArgs :
           \/ Fresh(NewExponential(LargeDuration, f, opts),
                    [d |-> LargeDuration, factor |-> f, opts |-> opts])
           \/ Fresh(NewDecorrelated(LargeDuration, f, opts),
                    [d |-> LargeDuration, factor |-> f, opts |-> opts])

\* Next returns (d, ok) to the caller.
Return(d, ok, loc) ==
    /\ ret' = [delay |-> d, ok |-> ok]
    /\ local' = loc
    /\ op' = "Next"
    /\ calls' = calls + 1
    /\ succ' = IF ok THEN succ + 1 ELSE succ
    /\ sum' = IF ok THEN sum + d ELSE sum
    /\ UNCHANGED <<args, reused, det>>

\* The call panics: nothing is returned and nothing was committed.
Panic ==
    /\ op' = "Panic"
    /\ UNCHANGED <<seq, args, ret, local, calls, succ, sum, reused, det>>

Callable == op # "Panic" /\ calls < MaxCalls

\* ---------------------------------------------------------------- Constant

\* Constant.Next with the retry limit tested with > for >=.
ConstantExhausted_OffByOne ==
    seq.options.maxRetries >= 0 /\ seq.retries > seq.options.maxRetries

ConstantExhausted ==
    seq.options.maxRetries >= 0 /\ seq.retries >= seq.options.maxRetries

\* Constant.Next testing the elapsed time the interval would bring.
ConstantOverBudget_AfterAdding ==
    /\ seq.options.maxElapsed > 0
    /\ Wrap(seq.elapsed + seq.interval) >= seq.options.maxElapsed

\* Constant.Next without its test of the elapsed time.
ConstantOverBudget_Never == FALSE

ConstantOverBudget ==
    seq.options.maxElapsed > 0 /\ seq.elapsed >= seq.options.maxElapsed

ConstantNext ==
    /\ seq.type = "Constant"
    /\ Callable
    /\ IF ConstantExhausted
       THEN UNCHANGED seq /\ Return(0, FALSE, NoLocals)
       ELSE IF ConstantOverBudget
       THEN UNCHANGED seq /\ Return(0, FALSE, NoLocals)
       ELSE /\ seq' = [seq EXCEPT !.retries = @ + 1,
                                  !.elapsed = Wrap(@ + seq.interval)]
            /\ Return(seq.interval, TRUE, NoLocals)

\* Reset starts a new retry cycle: the history kept for it starts again too.
Restart ==
    /\ op' = "Reset"
    /\ calls' = 0
    /\ succ' = 0
    /\ sum' = 0
    /\ ret' = ret
    /\ local' = NoLocals
    /\ reused' = (reused \/ calls > 0)
    /\ UNCHANGED <<args, det>>

ConstantReset ==
    /\ seq.type = "Constant"
    /\ op # "Panic"
    /\ seq' = [seq EXCEPT !.retries = 0, !.elapsed = 0]
    /\ Restart

\* ------------------------------------------------------------- Exponential

ExponentialExhausted ==
    seq.options.maxRetries >= 0 /\ seq.retries >= seq.options.maxRetries

\* d before jitter: base on the first call, then current * factor.
ExponentialRaw ==
    IF seq.retries > 0
    THEN Wrap(seq.current * FactorToDuration(seq.factor))
    ELSE seq.base

\* The overflow guard on the jittered d.
ExponentialGuard(d) ==
    IF Float64(d) > Float64(MaxInt64) THEN MaxInt64 ELSE d

\* Exponential.Next with the elapsed-time limit tested with > for >=.
ExponentialOverBudget_Strict(d) ==
    /\ seq.options.maxElapsed > 0
    /\ Wrap(seq.elapsed + d) > seq.options.maxElapsed

ExponentialOverBudget(d) ==
    /\ seq.options.maxElapsed > 0
    /\ Wrap(seq.elapsed + d) >= seq.options.maxElapsed

\* Exponential.Next handing the refused delay to the caller.
ExponentialRefuse_KeepsDelay(d) ==
    UNCHANGED seq /\ Return(d, FALSE, [base |-> 0, d |-> d])

\* Exponential.Next committing the refused delay to current.
ExponentialRefuse_CommitsCurrent(d) ==
    /\ seq' = [seq EXCEPT !.current = d]
    /\ Return(0, FALSE, [base |-> 0, d |-> d])

\* Exponential.Next forgetting the elapsed time when it refuses.
ExponentialRefuse_ClearsElapsed(d) ==
    /\ seq' = [seq EXCEPT !.elapsed = 0]
    /\ Return(0, FALSE, [base |-> 0, d |-> d])

ExponentialRefuse(d) ==
    UNCHANGED seq /\ Return(0, FALSE, [base |-> 0, d |-> d])

ExponentialNext ==
    /\ seq.type = "Exponential"
    /\ Callable
    /\ IF ExponentialExhausted
       THEN UNCHANGED seq /\ Return(0, FALSE, NoLocals)
       ELSE \E j \in Apply(seq.options.jitter, ExponentialRaw) :
                LET d == applyBounds(ExponentialGuard(j),
                                     seq.options.minInterval,
                                     seq.options.maxInterval)
                IN  IF ExponentialOverBudget(d)
                    THEN ExponentialRefuse(d)
                    ELSE /\ seq' = [seq EXCEPT !.current = d,
                                               !.retries = @ + 1,
                                               !.elapsed = Wrap(@ + d)]
                         /\ Return(d, TRUE, [base |-> 0, d |-> d])

\* Exponential.Reset leaving current as it is.
ExponentialReset_KeepsCurrent ==
    /\ seq.type = "Exponential"
    /\ op # "Panic"
    /\ seq' = [seq EXCEPT !.retries = 0, !.elapsed = 0]
    /\ Restart

ExponentialReset ==
    /\ seq.type = "Exponential"
    /\ op # "Panic"
    /\ seq' = [seq EXCEPT !.retries = 0, !.elapsed = 0, !.current = 0]
    /\ Restart

\* ------------------------------------------------------------ Decorrelated

DecorrelatedExhausted ==
    seq.options.maxRetries >= 0 /\ seq.retries >= seq.options.maxRetries

\* high of Decorrelated.Next before randBetween: the outcomes of the
\* float64-to-Duration conversion, raised to low and capped at maxInterval.
DecorrelatedHigh ==
    {LET h1 == Max(h0, seq.options.minInterval)
     IN  IF h1 > seq.options.maxInterval /\ seq.options.maxInterval > 0
         THEN seq.options.maxInterval
         ELSE h1 :
        h0 \in ToDuration(FloatMul(Float64(seq.prev), seq.factor))}

\* Decorrelated.Next with the elapsed-time limit tested with >= for >.
DecorrelatedOverBudget_NotStrict(delay) ==
    /\ seq.options.maxElapsed > 0
    /\ Wrap(seq.elapsed + delay) >= seq.options.maxElapsed

DecorrelatedOverBudget(delay) ==
    /\ seq.options.maxElapsed > 0
    /\ Wrap(seq.elapsed + delay) > seq.options.maxElapsed

\* Decorrelated.Next recording the returned delay in prev.
DecorrelatedFinish_PrevIsDelay(base0) ==
    LET base == applyBounds(base0, seq.options.minInterval,
                            seq.options.maxInterval)
    IN  \E delay \in Apply(seq.options.jitter, base) :
            IF DecorrelatedOverBudget(delay)
            THEN /\ UNCHANGED seq
                 /\ Return(0, FALSE, [base |-> base, d |-> delay])
            ELSE /\ seq' = [seq EXCEPT !.retries = @ + 1,
                                       !.elapsed = Wrap(@ + delay),
                                       !.prev = delay]
                 /\ Return(delay, TRUE, [base |-> base, d |-> delay])

\* Decorrelated.Next from the bounds on base to its return.
DecorrelatedFinish(base0) ==
    LET base == applyBounds(base0, seq.options.minInterval,
                            seq.options.maxInterval)
    IN  \E delay \in Apply(seq.options.jitter, base) :
            IF DecorrelatedOverBudget(delay)
            THEN /\ UNCHANGED seq
                 /\ Return(0, FALSE, [base |-> base, d |-> delay])
            ELSE /\ seq' = [seq EXCEPT !.retries = @ + 1,
                                       !.elapsed = Wrap(@ + delay),
                                       !.prev = base]
                 /\ Return(delay, TRUE, [base |-> base, d |-> delay])

DecorrelatedNext ==
    /\ seq.type = "Decorrelated"
    /\ Callable
    /\ IF DecorrelatedExhausted
       THEN UNCHANGED seq /\ Return(0, FALSE, NoLocals)
       ELSE IF seq.retries = 0 \/ seq.prev <= 0
       THEN DecorrelatedFinish(seq.initial)
       ELSE \E high \in DecorrelatedHigh :
                IF randBetweenPanics(seq.options.minInterval, high)
                THEN Panic
                ELSE \E base0 \in randBetween(seq.options.minInterval, high) :
                         DecorrelatedFinish(base0)

DecorrelatedReset ==
    /\ seq.type = "Decorrelated"
    /\ op # "Panic"
    /\ seq' = [seq EXCEPT !.retries = 0, !.elapsed = 0, !.prev = 0]
    /\ Restart

\* ----------------------------------------------------------- specification

Next ==
    \/ ConstantNext
    \/ ConstantReset
    \/ ExponentialNext
    \/ ExponentialReset
    \/ DecorrelatedNext
    \/ DecorrelatedReset

Spec == Init /\ [][Next]_vars

\* ------------------------------------------------- seeded random sources

\* A source seeded alike yields the same words every time; a *rand.Rand is a
\* position in them. The words each take one of MaxWord + 1 values.
MaxWord == 1

Word == 0..MaxWord

\* The machines the conversion of an out-of-range float64 differs on.
Arch == {"amd64", "arm64"}

\* time.Duration(x) on one machine: where x is out of range, the most
\* negative value on amd64 and the nearest value on arm64.
ToDurationOn(arch, x) ==
    LET t == IF x >= 0 THEN x \div 2 ELSE -((-x) \div 2)
    IN  IF t \in Duration
        THEN t
        ELSE IF arch = "amd64" \/ x < 0 THEN MinInt64 ELSE MaxInt64

\* r.Int64N(n), n > 0, on the word u the source yields: u reduced to [0, n).
WordInt64N(n, u) == u % n

\* j.Apply(d, r) on the words w ahead of r: the result and the words taken.
ApplyOn(j, d, w) ==
    CASE j = "NoneJitter" -> [d |-> d, used |-> 0]
      [] j = "FullJitter" ->
            IF d <= 0
            THEN [d |-> 0, used |-> 0]
            ELSE [d |-> Wrap(WordInt64N(d, w[1]) + 1), used |-> 1]
      [] j = "EqualJitter" ->
            IF d <= 0
            THEN [d |-> 0, used |-> 0]
            ELSE LET half == d \div 2
                 IN  [d |-> Wrap(half +
                                 WordInt64N(Wrap(Wrap(d - half) + 1), w[1])),
                      used |-> 1]

\* randBetween(r, low, high) on the words w ahead of r.
randBetweenOn(low, high, w) ==
    IF high <= low
    THEN [d |-> low, used |-> 0]
    ELSE [d |-> Wrap(low + WordInt64N(Wrap(Wrap(high - low) + 1), w[1])),
          used |-> 1]

\* What a call of Next leaves: the instance, what it returned, the words it
\* took from the source, and whether it panicked instead of returning.
Outcome(s, d, ok, used) ==
    [seq |-> s, ret |-> [delay |-> d, ok |-> ok], used |-> used,
     panic |-> FALSE]

Panicked(s) ==
    [seq |-> s, ret |-> [delay |-> 0, ok |-> FALSE], used |-> 0,
     panic |-> TRUE]

\* Constant.Next on the instance s.
ConstantOn(s) ==
    IF s.options.maxRetries >= 0 /\ s.retries >= s.options.maxRetries
    THEN Outcome(s, 0, FALSE, 0)
    ELSE IF s.options.maxElapsed > 0 /\ s.elapsed >= s.options.maxElapsed
    THEN Outcome(s, 0, FALSE, 0)
    ELSE Outcome([s EXCEPT !.retries = @ + 1,
                           !.elapsed = Wrap(@ + s.interval)],
                 s.interval, TRUE, 0)

\* Exponential.Next on the instance s and the words w ahead of its source.
ExponentialOn(s, w) ==
    IF s.options.maxRetries >= 0 /\ s.retries >= s.options.maxRetries
    THEN Outcome(s, 0, FALSE, 0)
    ELSE LET raw == IF s.retries > 0
                    THEN Wrap(s.current * FactorToDuration(s.factor))
                    ELSE s.base
             j == ApplyOn(s.options.jitter, raw, w)
             d == applyBounds(ExponentialGuard(j.d), s.options.minInterval,
                              s.options.maxInterval)
         IN  IF /\ s.options.maxElapsed > 0
                /\ Wrap(s.elapsed + d) >= s.options.maxElapsed
             THEN Outcome(s, 0, FALSE, j.used)
             ELSE Outcome([s EXCEPT !.current = d,
                                    !.retries = @ + 1,
                                    !.elapsed = Wrap(@ + d)],
                          d, TRUE, j.used)

\* Decorrelated.Next on the instance s and the words w ahead of its source.
DecorrelatedOn(arch, s, w) ==
    LET first == s.retries = 0 \/ s.prev <= 0
        low == s.options.minInterval
        h0 == ToDurationOn(arch, FloatMul(Float64(s.prev), s.factor))
        h1 == Max(h0, low)
        high == IF h1 > s.options.maxInterval /\ s.options.maxInterval > 0
                THEN s.options.maxInterval
                ELSE h1
        b == IF first
             THEN [d |-> s.initial, used |-> 0]
             ELSE randBetweenOn(low, high, w)
        base == applyBounds(b.d, s.options.minInterval,
                            s.options.maxInterval)
        j == ApplyOn(s.options.jitter, base, SubSeq(w, b.used + 1, Len(w)))
    IN  IF s.options.maxRetries >= 0 /\ s.retries >= s.options.maxRetries
        THEN Outcome(s, 0, FALSE, 0)
        ELSE IF ~first /\ randBetweenPanics(low, high)
        THEN Panicked(s)
        ELSE IF /\ s.options.maxElapsed > 0
                /\ Wrap(s.elapsed + j.d) > s.options.maxElapsed
        THEN Outcome(s, 0, FALSE, b.used + j.used)
        ELSE Outcome([s EXCEPT !.retries = @ + 1,
                               !.elapsed = Wrap(@ + j.d),
                               !.prev = base],
                     j.d, TRUE, b.used + j.used)

\* s.Next() through the Sequence interface.
NextOn(arch, s, w) ==
    CASE s.type = "Constant" -> ConstantOn(s)
      [] s.type = "Exponential" -> ExponentialOn(s, w)
      [] s.type = "Decorrelated" -> DecorrelatedOn(arch, s, w)

\* Reset leaving the memory of the algorithm as it is.
ResetOn_KeepsMemory(s) == [s EXCEPT !.retries = 0, !.elapsed = 0]

\* s.Reset() through the Sequence interface.
ResetOn(s) ==
    CASE s.type = "Constant" -> [s EXCEPT !.retries = 0, !.elapsed = 0]
      [] s.type = "Exponential" ->
            [s EXCEPT !.retries = 0, !.elapsed = 0, !.current = 0]
      [] s.type = "Decorrelated" ->
            [s EXCEPT !.retries = 0, !.elapsed = 0, !.prev = 0]

\* An instance with its own source at position pos in the words, and what
\* its last call of Next returned.
Seeded(s, pos) == [seq |-> s, pos |-> pos, ret |-> [delay |-> 0, ok |-> TRUE]]

\* The words ahead of a source at position pos, ws being the words it yields.
Ahead(ws, pos) == SubSeq(ws, pos + 1, Len(ws))

\* The second instance drawing from the source of the first, after it; past
\* the words chosen so far it goes on with those at its own position.
TwinAhead_SharedSource(ws, own, other) == Ahead(ws, other) \o Ahead(ws, own)

\* The words ahead of the second instance: those of its own source; other is
\* where the source of the first instance stands.
TwinAhead(ws, own, other) == Ahead(ws, own)

\* The instance i after a call of Next with outcome o.
After(i, o) == [seq |-> o.seq, pos |-> i.pos + o.used, ret |-> o.ret]

\* The calls of Next followed side by side, over all retry cycles.
MaxTwinCalls == 3

\* The constructor arguments followed side by side.
TwinDurationArgs == {2, 3}

TwinOptionLists ==
    {<<WithMaxRetries(n), WithMaxElapsed(e), WithMinInterval(lo),
       WithJitterStrategy(j)>> :
        n \in {-1, 2}, e \in MaxElapsedArgs, lo \in {0, 2}, j \in Jitter}

\* det holds: the machine; the words the seeded source yields, as far as they
\* have been drawn; the calls of Next before the last Reset and since; where
\* the source of main stood at the last Reset; and four instances built alike
\*   main  the instance under the calls of Next and Reset,
\*   twin  one with a source of its own, seeded alike, under the same calls,
\*   anew  one built at the last Reset of main with a source newly seeded,
\*   cont  one built at the last Reset of main with a source standing where
\*         that of main stood.
Twins(s, a, arch) ==
    /\ Built(s, a)
    /\ det = [arch |-> arch, words |-> <<>>, op |-> "New",
              before |-> 0, since |-> 0, mark |-> 0,
              main |-> Seeded(s, 0), twin |-> Seeded(s, 0),
              anew |-> Seeded(s, 0), cont |-> Seeded(s, 0)]

\* Only Decorrelated converts a float64, so only it is followed on both
\* machines.
TwinsInit ==
    \E d \in TwinDurationArgs, opts \in TwinOptionLists :
        \/ Twins(NewConstant(d, opts),
                 [d |-> d, factor |-> NoFactor, opts |-> opts], "amd64")
        \/ Twins(NewExponential(d, Float2, opts),
                 [d |-> d, factor |-> Float2, opts |-> opts], "amd64")
        \/ \E arch \in Arch :
               Twins(NewDecorrelated(d, Float3, opts),
                     [d |-> d, factor |-> Float3, opts |-> opts], arch)

\* Next is called on every instance; each takes its words from its own
\* source. A call takes at most two words, so two more are chosen.
TwinsNext ==
    /\ det.op # "Panic"
    /\ det.before + det.since < MaxTwinCalls
    /\ \E ext \in Word \X Word :
       \E ws \in {det.words \o ext} :
       \E m \in {NextOn(det.arch, det.main.seq, Ahead(ws, det.main.pos))} :
       \E t \in {NextOn(det.arch, det.twin.seq,
                        TwinAhead(ws, det.twin.pos, det.main.pos + m.used))} :
       \E n \in {NextOn(det.arch, det.anew.seq, Ahead(ws, det.anew.pos))} :
       \E c \in {NextOn(det.arch, det.cont.seq, Ahead(ws, det.cont.pos))} :
           LET drawn == Max(Max(det.main.pos + m.used, det.twin.pos + t.used),
                            Max(det.anew.pos + n.used, det.cont.pos + c.used))
           IN  IF m.panic \/ t.panic \/ n.panic \/ c.panic
               THEN det' = [det EXCEPT !.op = "Panic"]
               ELSE det' = [det EXCEPT
                               !.words = SubSeq(ws, 1, Max(drawn, Len(@))),
                               !.op = "Next",
                               !.since = @ + 1,
                               !.main = After(@, m),
                               !.twin = After(@, t),
                               !.anew = After(@, n),
                               !.cont = After(@, c)]
    /\ UNCHANGED <<seq, args, op, ret, local, calls, succ, sum, reused>>

\* Reset is called on main and twin; anew and cont are built as main was,
\* seq being the instance as its constructor returned it.
TwinsReset ==
    /\ det.op # "Panic"
    /\ det' = [det EXCEPT
                  !.op = "Reset",
                  !.before = @ + det.since,
                  !.since = 0,
                  !.mark = det.main.pos,
                  !.main = [@ EXCEPT !.seq = ResetOn(@)],
                  !.twin = [@ EXCEPT !.seq = ResetOn(@)],
                  !.anew = Seeded(seq, 0),
                  !.cont = Seeded(seq, det.main.pos)]
    /\ UNCHANGED <<seq, args, op, ret, local, calls, succ, sum, reused>>

TwinsStep == TwinsNext \/ TwinsReset

SpecTwins == TwinsInit /\ [][TwinsStep]_vars

\* ------------------------------------------------------ a jitter by itself

\* No sequence is built where a Jitter is called by itself.
NoSequence == [type |-> "None"]

\* A Jitter and the duration d it is about to be applied to.
JitterInit ==
    /\ Built(NoSequence, [d |-> 0, factor |-> NoFactor, opts |-> <<>>])
    /\ \E j \in Jitter, d \in Duration :
           det = [op |-> "New", jitter |-> j, d |-> d, out |-> 0]

\* out = j.Apply(d, r), for whatever r draws.
JitterApply ==
    /\ \E out \in Apply(det.jitter, det.d) :
           det' = [det EXCEPT !.op = "Apply", !.out = out]
    /\ UNCHANGED <<seq, args, op, ret, local, calls, succ, sum, reused>>

SpecJitter == JitterInit /\ [][JitterApply]_vars

\* ------------------------------------------------- two goroutines calling

\* Two goroutines call Next on a Constant; nothing in Next synchronizes, so
\* each read and each write of a field is a step of its own.
Callers == {1, 2}

\* The calls of Next each goroutine makes.
MaxRaceCalls == 2

\* Both goroutines holding the one instance, whatever det.mode says.
InstanceOf_Shared(c) == 1

\* The instance goroutine c calls: the one shared instance, or its own.
InstanceOf(c) == IF det.mode = "shared" THEN 1 ELSE c

Mine(c) == det.inst[InstanceOf(c)]

RaceInit ==
    \E mode \in {"shared", "own"}, n \in {-1, 1, 2}, e \in {0, 3} :
        LET opts == <<WithMaxRetries(n), WithMaxElapsed(e)>>
        IN  /\ Built(NewConstant(2, opts),
                     [d |-> 2, factor |-> NoFactor, opts |-> opts])
            /\ det = [op |-> "New",
                      mode |-> mode,
                      inst |-> [i \in Callers |-> NewConstant(2, opts)],
                      pc |-> [c \in Callers |-> "idle"],
                      tmp |-> [c \in Callers |-> 0],
                      done |-> [c \in Callers |-> 0],
                      oks |-> [c \in Callers |-> 0]]

RaceFrame == UNCHANGED <<seq, args, op, ret, local, calls, succ, sum, reused>>

\* Goroutine c at pc from moves to pc to.
Goes(c, from, to) ==
    /\ det.pc[c] = from
    /\ det' = [det EXCEPT !.op = "Next", !.pc[c] = to]
    /\ RaceFrame

\* Goroutine c returns (0, false).
Fails(c, from) ==
    /\ det.pc[c] = from
    /\ det' = [det EXCEPT !.op = "Next", !.pc[c] = "idle", !.done[c] = @ + 1]
    /\ RaceFrame

RaceCall(c) ==
    /\ det.done[c] < MaxRaceCalls
    /\ Goes(c, "idle", "checkRetries")

RaceCheckRetries(c) ==
    IF /\ Mine(c).options.maxRetries >= 0
       /\ Mine(c).retries >= Mine(c).options.maxRetries
    THEN Fails(c, "checkRetries")
    ELSE Goes(c, "checkRetries", "checkElapsed")

RaceCheckElapsed(c) ==
    IF /\ Mine(c).options.maxElapsed > 0
       /\ Mine(c).elapsed >= Mine(c).options.maxElapsed
    THEN Fails(c, "checkElapsed")
    ELSE Goes(c, "checkElapsed", "loadRetries")

\* c.retries++ reads ...
RaceLoadRetries(c) ==
    /\ det.pc[c] = "loadRetries"
    /\ det' = [det EXCEPT !.op = "Next", !.pc[c] = "storeRetries",
                          !.tmp[c] = Mine(c).retries]
    /\ RaceFrame

\* ... and writes.
RaceStoreRetries(c) ==
    /\ det.pc[c] = "storeRetries"
    /\ det' = [det EXCEPT !.op = "Next", !.pc[c] = "loadElapsed",
                          !.inst[InstanceOf(c)].retries = det.tmp[c] + 1]
    /\ RaceFrame

\* c.elapsed += c.interval reads ...
RaceLoadElapsed(c) ==
    /\ det.pc[c] = "loadElapsed"
    /\ det' = [det EXCEPT !.op = "Next", !.pc[c] = "storeElapsed",
                          !.tmp[c] = Mine(c).elapsed]
    /\ RaceFrame

\* ... and writes; then Next returns (c.interval, true).
RaceStoreElapsed(c) ==
    /\ det.pc[c] = "storeElapsed"
    /\ det' = [det EXCEPT !.op = "Next", !.pc[c] = "idle",
                          !.inst[InstanceOf(c)].elapsed =
                              Wrap(det.tmp[c] + Mine(c).interval),
                          !.done[c] = @ + 1,
                          !.oks[c] = @ + 1]
    /\ RaceFrame

RaceStep ==
    \E c \in Callers :
        \/ RaceCall(c)
        \/ RaceCheckRetries(c)
        \/ RaceCheckElapsed(c)
        \/ RaceLoadRetries(c)
        \/ RaceStoreRetries(c)
        \/ RaceLoadElapsed(c)
        \/ RaceStoreElapsed(c)

SpecRace == RaceInit /\ [][RaceStep]_vars

\* ------------------------------------------------ a caller that goes on

\* A caller goes on calling Next, without Reset, on an instance with an
\* elapsed-time limit and unlimited retries. det holds the machine, the
\* instance, the words its source yields to the next call, and what the last
\* call returned.

\* With unlimited retries Next tests retries against 0 only: retries beyond
\* this many are held as this many.
MaxCycleRetries == 2

\* The elapsed-time limit of the instances followed.
CycleMaxElapsed == 5

\* The words followed: they reduce to every draw up to the elapsed-time
\* limit, and a delay beyond it is refused.
CycleWord == 0..CycleMaxElapsed

\* The words a call of Next on s can take: none for Constant, one for the
\* jitter of Exponential, two for the base and the jitter of Decorrelated.
CycleWords(s) ==
    CASE s.type = "Constant" -> {<<0, 0>>}
      [] s.type = "Exponential" -> CycleWord \X {0}
      [] s.type = "Decorrelated" -> CycleWord \X CycleWord

\* Strictly positive durations for the constructor.
CycleDurationArgs == {1, 2, 3}

CycleOptionLists ==
    {<<WithMaxElapsed(CycleMaxElapsed), WithJitterStrategy(j)>> :
        j \in Jitter}

Cycle(s, a) ==
    /\ Built(s, a)
    /\ det = [op |-> "New", arch |-> "amd64", inst |-> s,
              words |-> <<0, 0>>, ret |-> [delay |-> 0, ok |-> TRUE]]

CycleInit ==
    \E d \in CycleDurationArgs, opts \in CycleOptionLists :
        \/ Cycle(NewConstant(d, opts),
                 [d |-> d, factor |-> NoFactor, opts |-> opts])
        \/ \E f \in FactorArgs :
               \/ Cycle(NewExponential(d, f, opts),
                        [d |-> d, factor |-> f, opts |-> opts])
               \/ Cycle(NewDecorrelated(d, f, opts),
                        [d |-> d, factor |-> f, opts |-> opts])

CycleFrame == UNCHANGED <<seq, args, op, ret, local, calls, succ, sum, reused>>

\* The source settles the words the next call will take.
CycleDraw ==
    /\ det.op \in {"New", "Next"}
    /\ \E w \in CycleWords(det.inst) :
           det' = [det EXCEPT !.op = "Draw", !.words = w]
    /\ CycleFrame

\* One more call of Next.
CycleNext ==
    /\ det.op = "Draw"
    /\ \E o \in {NextOn(det.arch, det.inst, det.words)} :
           IF o.panic
           THEN det' = [det EXCEPT !.op = "Panic"]
           ELSE det' = [det EXCEPT
                           !.op = "Next",
                           !.inst = [o.seq EXCEPT
                                        !.retries =
                                            IF @ > MaxCycleRetries
                                            THEN MaxCycleRetries
                                            ELSE @],
                           !.ret = o.ret]
    /\ CycleFrame

CycleStep == CycleDraw \/ CycleNext

\* The caller does go on: the source yields its words whenever a call is to
\* be made, and a call that has its words is made and returns. (CycleNext can
\* be taken exactly where det.op = "Draw" and leaves no such state, so the last
\* conjunct is weak fairness of CycleNext.)
SpecCycle ==
    /\ CycleInit
    /\ [][CycleStep]_vars
    /\ WF_vars(CycleDraw)
    /\ []<>(det.op # "Draw")

\* ------------------------------------------------- applyBounds by itself

\* applyBounds is called on a duration and a pair of bounds, and once more on
\* what it returned. det holds the arguments and the two results.

\* The bounds followed: unset, negative, and positive either way round.
BoundArgs == {-1, 0, 1, 2, 3, MaxInt64}

BoundsInit ==
    /\ Built(NoSequence, [d |-> 0, factor |-> NoFactor, opts |-> <<>>])
    /\ \E d \in Duration, min \in BoundArgs, max \in BoundArgs :
           det = [op |-> "New", d |-> d, min |-> min, max |-> max,
                  out |-> 0, again |-> 0]

BoundsFrame == UNCHANGED <<seq, args, op, ret, local, calls, succ, sum, reused>>

BoundsApply ==
    /\ det.op = "New"
    /\ det' = [det EXCEPT !.op = "Apply",
                          !.out = applyBounds(det.d, det.min, det.max)]
    /\ BoundsFrame

BoundsApplyAgain ==
    /\ det.op = "Apply"
    /\ det' = [det EXCEPT !.op = "Again",
                          !.again = applyBounds(det.out, det.min, det.max)]
    /\ BoundsFrame

BoundsStep == BoundsApply \/ BoundsApplyAgain

SpecBounds == BoundsInit /\ [][BoundsStep]_vars

\* ------------------------------------------------------------------ claims

\* How the instance is configured.
MaxRetries == seq.options.maxRetries

MaxElapsed == seq.options.maxElapsed

Returned == op = "Next"

Min(a, b) == IF a <= b THEN a ELSE b

\* C1: with maxRetries = N >= 0 and no elapsed-time limit, the first N calls
\* of Next since construction or Reset return allowed = true and every later
\* one returns (0, false), so with N = 0 the first call fails; with
\* maxRetries = -1 no call fails.
C1_RetryLimit ==
    (Returned /\ MaxElapsed <= 0) =>
        IF MaxRetries >= 0
        THEN /\ ret.ok <=> calls <= MaxRetries
             /\ ~ret.ok => ret.delay = 0
             /\ succ = Min(calls, MaxRetries)
        ELSE ret.ok /\ succ = calls

\* A Decorrelated with maxRetries = 2 whose third call of the cycle has just
\* failed after two that succeeded.
C1_Witness ==
    /\ seq.type = "Decorrelated"
    /\ Returned
    /\ MaxElapsed <= 0
    /\ MaxRetries = 2
    /\ calls = 3
    /\ succ = 2
    /\ ~ret.ok

\* C2: whenever Next returns allowed = false, the delay it returns is 0.
C2_FailureReturnsZero == (Returned /\ ~ret.ok) => ret.delay = 0

\* An Exponential whose call computed a positive delay and was then refused
\* by the elapsed-time limit.
C2_Witness ==
    /\ seq.type = "Exponential"
    /\ Returned
    /\ ~ret.ok
    /\ local.d > 0

\* C3: every delay Next returns is >= 0, whatever the constructor was given.
C3_DelayNonNegative == Returned => ret.delay >= 0

\* C4 as claimed: with maxElapsed = M > 0 the sum of the delays handed to the
\* caller within one retry cycle never reaches or exceeds M.
C4_SumBelowLimit == MaxElapsed > 0 => sum < MaxElapsed

\* C4 as amended: with maxElapsed = M > 0 the elapsed counter stays < M for
\* Exponential and <= M for Decorrelated; Constant tests it before adding the
\* interval, so after a successful call it is the counter without the last
\* interval that is < M.
C4_ElapsedLimit ==
    MaxElapsed > 0 =>
        CASE seq.type = "Exponential" -> seq.elapsed < MaxElapsed
          [] seq.type = "Decorrelated" -> seq.elapsed <= MaxElapsed
          [] seq.type = "Constant" ->
                seq.retries > 0 =>
                    Wrap(seq.elapsed - seq.interval) < MaxElapsed

\* A Constant whose last call succeeded and brought the sum of its delays
\* beyond maxElapsed.
C4_Witness ==
    /\ seq.type = "Constant"
    /\ Returned
    /\ ret.ok
    /\ MaxElapsed > 0
    /\ sum > MaxElapsed
    /\ sum = seq.elapsed

\* C5: for Exponential with maxElapsed = M > 0, a call whose final delay d has
\* elapsed + d >= M returns (0, false), equality included; elapsed < M in
\* every reachable state, and a first call with d >= M fails.
C5_ExponentialElapsed ==
    (seq.type = "Exponential" /\ MaxElapsed > 0) =>
        /\ seq.elapsed < MaxElapsed
        /\ (Returned /\ ret.ok) => local.d = ret.delay
        /\ (Returned /\ ~ret.ok /\ ~ExponentialExhausted) =>
               seq.elapsed + local.d >= MaxElapsed
        /\ (Returned /\ calls = 1 /\ local.d >= MaxElapsed) => ~ret.ok

\* An Exponential that has refused a delay bringing elapsed to exactly M.
C5_Witness ==
    /\ seq.type = "Exponential"
    /\ Returned
    /\ ~ret.ok
    /\ seq.elapsed > 0
    /\ seq.elapsed + local.d = MaxElapsed

\* C6: for Decorrelated with maxElapsed = M > 0, a call with
\* elapsed + delay > M returns (0, false) and one with elapsed + delay = M
\* succeeds and commits; elapsed <= M in every reachable state.
C6_DecorrelatedElapsed ==
    (seq.type = "Decorrelated" /\ MaxElapsed > 0) =>
        /\ seq.elapsed <= MaxElapsed
        /\ (Returned /\ ret.ok) => local.d = ret.delay
        /\ (Returned /\ ~ret.ok /\ ~DecorrelatedExhausted) =>
               seq.elapsed + local.d > MaxElapsed

\* A Decorrelated whose last call returned a positive delay that brought
\* elapsed to exactly M, after an earlier one.
C6_Witness ==
    /\ seq.type = "Decorrelated"
    /\ Returned
    /\ ret.ok
    /\ ret.delay > 0
    /\ seq.retries = 2
    /\ MaxElapsed > 0
    /\ seq.elapsed = MaxElapsed

Ceil(m, i) == (m + i - 1) \div i

\* C7: for Constant with interval I > 0, maxElapsed = M > 0 and unlimited
\* retries, exactly ceil(M / I) calls of Next succeed and the next fails.
C7_ConstantCeil ==
    (/\ seq.type = "Constant"
     /\ seq.interval > 0
     /\ MaxElapsed > 0
     /\ MaxRetries < 0
     /\ Returned) =>
        /\ ret.ok <=> calls <= Ceil(MaxElapsed, seq.interval)
        /\ succ = Min(calls, Ceil(MaxElapsed, seq.interval))

\* A Constant with 2 * I < M < 3 * I whose fourth call has failed after
\* three that succeeded.
C7_Witness ==
    /\ seq.type = "Constant"
    /\ seq.interval > 0
    /\ 2 * seq.interval < MaxElapsed
    /\ MaxElapsed < 3 * seq.interval
    /\ MaxRetries < 0
    /\ Returned
    /\ calls = 4
    /\ succ = 3
    /\ ~ret.ok

\* An Exponential with None jitter, no bounds and no limits.
ExponentialPlain ==
    /\ seq.type = "Exponential"
    /\ seq.options.jitter = "NoneJitter"
    /\ seq.options.minInterval <= 0
    /\ seq.options.maxInterval <= 0
    /\ MaxRetries < 0
    /\ MaxElapsed <= 0

\* C8: for such an Exponential built with a factor f > 1.0 and base > 0, the
\* first Next returns base and each later one the previous delay multiplied by
\* f (where that product is a Duration), which is strictly larger.
C8_ExponentialGrowth ==
    [][(/\ ExponentialPlain
        /\ ~FactorLeqOne(args.factor)
        /\ seq.base > 0
        /\ op' = "Next") =>
           IF Returned
           THEN (ret.delay * args.factor.num <= MaxInt64 * args.factor.den) =>
                    /\ ret'.delay = (ret.delay * args.factor.num)
                                        \div args.factor.den
                    /\ ret'.delay > ret.delay
           ELSE ret'.delay = seq.base]_vars

\* C9: for Exponential (None jitter, no elapsed limit, a whole factor), when
\* the previous delay multiplied by the factor exceeds the largest Duration,
\* Next returns that largest Duration, or maxInterval when one is set.
C9_OverflowClamped ==
    [][(/\ seq.type = "Exponential"
        /\ seq.options.jitter = "NoneJitter"
        /\ MaxElapsed <= 0
        /\ seq.factor.den = 1
        /\ Returned /\ ret.ok
        /\ op' = "Next" /\ ret'.ok
        /\ ret.delay * seq.factor.num > MaxInt64) =>
           ret'.delay = IF seq.options.maxInterval > 0
                        THEN seq.options.maxInterval
                        ELSE MaxInt64]_vars

\* C10: with maxInterval = m > 0 no call of Next that returns allowed = true
\* returns a delay greater than m, whatever the type of the sequence.
C10_CappedAtMaxInterval ==
    (Returned /\ ret.ok /\ seq.options.maxInterval > 0) =>
        ret.delay <= seq.options.maxInterval

MinInterval == seq.options.minInterval

MaxInterval == seq.options.maxInterval

C12_ExponentialFloor ==
    (/\ seq.type = "Exponential"
     /\ MinInterval > 0
     /\ (MaxInterval <= 0 \/ MaxInterval >= MinInterval)
     /\ Returned
     /\ ret.ok) =>
        /\ ret.delay >= MinInterval
        /\ (/\ seq.options.jitter = "NoneJitter"
            /\ calls = 1
            /\ seq.base < MinInterval) => ret.delay = MinInterval

\* An Exponential with Full jitter whose second delay of the cycle was drawn
\* from a raw delay above m and returned as m.
C12_Witness ==
    /\ seq.type = "Exponential"
    /\ seq.options.jitter = "FullJitter"
    /\ MinInterval > 0
    /\ seq.base > MinInterval
    /\ Returned
    /\ ret.ok
    /\ calls = 2
    /\ succ = 2
    /\ ret.delay = MinInterval

\* C13: for Decorrelated with minInterval = m > 0, m <= maxInterval, every
\* successful Next returns a delay >= m, whatever the jitter.
C13_DecorrelatedFloor ==
    (/\ seq.type = "Decorrelated"
     /\ MinInterval > 0
     /\ MinInterval <= MaxInterval
     /\ Returned
     /\ ret.ok) => ret.delay >= MinInterval

\* C14: for Decorrelated maxInterval is > 0 in every reachable state, 30 s
\* when the caller gave none or one <= 0, and no successful Next returns a
\* delay above it, whatever the jitter and however many calls and resets.
C14_DecorrelatedCeiling ==
    seq.type = "Decorrelated" =>
        /\ MaxInterval > 0
        /\ MaxInterval = IF applyOptions(args.opts).maxInterval <= 0
                         THEN DefaultMaxInterval
                         ELSE applyOptions(args.opts).maxInterval
        /\ (Returned /\ ret.ok) => ret.delay <= MaxInterval

\* A Decorrelated given no positive maxInterval and an initial above 30 s
\* that, reset after use, has returned 30 s.
C14_Witness ==
    /\ seq.type = "Decorrelated"
    /\ applyOptions(args.opts).maxInterval <= 0
    /\ seq.initial > DefaultMaxInterval
    /\ reused
    /\ Returned
    /\ ret.ok
    /\ ret.delay = DefaultMaxInterval

\* C15: for Exponential with None jitter, maxInterval = m > 0, no elapsed
\* limit and base > 0, a successful Next whose uncapped value (base on the
\* first call, the previous delay times the factor later) exceeds m returns
\* exactly m, so that once capped the delay stays m.
C15_StaysCapped ==
    [][(/\ seq.type = "Exponential"
        /\ seq.options.jitter = "NoneJitter"
        /\ MaxInterval > 0
        /\ MaxElapsed <= 0
        /\ seq.base > 0
        /\ op' = "Next"
        /\ ret'.ok) =>
           IF Returned
           THEN (ret.delay * seq.factor.num > MaxInterval * seq.factor.den)
                    => ret'.delay = MaxInterval
           ELSE seq.base > MaxInterval => ret'.delay = MaxInterval]_vars

\* C16: retries is the number of calls of Next that returned allowed = true
\* since construction or the last Reset and elapsed the sum of the delays
\* they returned; a successful Next adds 1 and its delay, a failed one adds
\* nothing, and neither value decreases except through Reset.
C16_Counters ==
    [][/\ seq.retries = succ
       /\ seq.elapsed = sum
       /\ (op' = "Next" /\ ret'.ok) =>
              /\ seq'.retries = seq.retries + 1
              /\ seq'.elapsed = seq.elapsed + ret'.delay
       /\ (op' = "Next" /\ ~ret'.ok) =>
              /\ seq'.retries = seq.retries
              /\ seq'.elapsed = seq.elapsed
       /\ op' # "Reset" =>
              /\ seq'.retries >= seq.retries
              /\ seq'.elapsed >= seq.elapsed]_vars

\* The instance as its constructor returned it.
Constructed ==
    CASE seq.type = "Constant" -> NewConstant(args.d, args.opts)
      [] seq.type = "Exponential" ->
            NewExponential(args.d, args.factor, args.opts)
      [] seq.type = "Decorrelated" ->
            NewDecorrelated(args.d, args.factor, args.opts)

\* Whether the first Next of an instance succeeds, d being the delay it
\* computes: the retry limit is not 0 and d passes the elapsed-time limit.
FirstNextOk(d) ==
    /\ MaxRetries # 0
    /\ MaxElapsed > 0 =>
           CASE seq.type = "Constant" -> TRUE
             [] seq.type = "Exponential" -> d < MaxElapsed
             [] seq.type = "Decorrelated" -> d <= MaxElapsed

\* C17: Reset, in whatever state it is called, sets retries, elapsed and
\* current / prev to 0 and leaves the configuration as constructed, so the
\* instance is as its constructor returned it; the Next that follows a Reset
\* succeeds on the condition on which the first Next of a new instance does.
C17_ResetRestores ==
    [][/\ op' = "Reset" =>
              /\ seq' = Constructed
              /\ seq'.retries = 0
              /\ seq'.elapsed = 0
              /\ seq.type = "Exponential" => seq'.current = 0
              /\ seq.type = "Decorrelated" => seq'.prev = 0
       /\ (op \in {"New", "Reset"} /\ op' = "Next") =>
              (ret'.ok <=> FirstNextOk(local'.d))]_vars

\* An Exponential just reset after its retry limit of 2 made Next fail, its
\* delays having grown before.
C17_Witness ==
    /\ seq.type = "Exponential"
    /\ op = "Reset"
    /\ reused
    /\ ~ret.ok
    /\ MaxRetries = 2
    /\ MaxElapsed <= 0
    /\ seq.base > 0
    /\ seq.current = 0
    /\ seq.retries = 0

\* C18 as claimed: after any calls of Next followed by Reset, the results of
\* the calls that follow are, call for call, those of an instance newly
\* built with the same parameters and the same seed, whatever the type and
\* the jitter.
C18_AsNewlySeeded ==
    det.op = "Next" => det.main.ret = det.anew.ret

\* C18 as amended: they are those of an instance newly built with the same
\* parameters whose source stands where the source of the reset instance
\* stood at the Reset, which Reset does not rewind; so they are those of a
\* newly seeded instance where no word had been drawn before the Reset.
C18_AsNewlyBuilt ==
    /\ det.main.seq = det.cont.seq
    /\ det.main.pos = det.cont.pos
    /\ det.op = "Next" => det.main.ret = det.cont.ret
    /\ (det.op = "Next" /\ det.mark = 0) => det.main.ret = det.anew.ret

\* An Exponential with Full jitter that drew a word, was reset, and then
\* returned a delay other than a newly seeded instance does.
C18_Witness ==
    /\ seq.type = "Exponential"
    /\ seq.options.jitter = "FullJitter"
    /\ det.op = "Next"
    /\ det.before > 0
    /\ det.mark > 0
    /\ det.since = 2
    /\ det.main.ret.ok
    /\ det.anew.ret.ok
    /\ det.main.ret.delay # det.anew.ret.delay
    /\ det.main.ret = det.cont.ret

DecorrelatedFirst ==
    /\ seq.type = "Decorrelated"
    /\ seq.options.jitter = "NoneJitter"
    /\ MaxRetries < 0
    /\ MaxElapsed <= 0
    /\ seq.initial >= 0
    /\ Returned
    /\ calls = 1

ExponentialEqual ==
    /\ seq.type = "Exponential"
    /\ seq.options.jitter = "EqualJitter"
    /\ seq.factor = Float2
    /\ MinInterval <= 0
    /\ MaxInterval <= 0
    /\ MaxRetries < 0
    /\ MaxElapsed <= 0
    /\ seq.base > 0
    /\ Returned
    /\ calls > 0
    /\ seq.base * 2^(calls - 1) <= MaxInt64

C22_FactorDefault ==
    /\ seq.type = "Exponential" =>
           /\ seq.factor = IF FactorLeqOne(args.factor)
                           THEN Float2
                           ELSE args.factor
           /\ (FactorLeqOne(args.factor) /\ op = "New") =>
                  seq = NewExponential(args.d, Float2, args.opts)
           /\ (/\ FactorLeqOne(args.factor)
               /\ ExponentialPlain
               /\ seq.base >= 0
               /\ Returned
               /\ seq.base * 2^(calls - 1) \in Duration) =>
                  (ret.ok /\ ret.delay = seq.base * 2^(calls - 1))
    /\ seq.type = "Decorrelated" =>
           seq.factor = IF FactorLeqOne(args.factor)
                        THEN Float3
                        ELSE args.factor

\* An Exponential given the factor 1/2 whose third delay is four times its
\* base.
C22_Witness ==
    /\ ExponentialPlain
    /\ FactorLeqOne(args.factor)
    /\ seq.base > 0
    /\ Returned
    /\ calls = 3
    /\ ret.delay = 4 * seq.base

\* C23: FullJitter.Apply(d, r) lies in [1, d] for every d > 0 whatever r
\* draws, both ends being results of some draw, and is 0 for every d <= 0.
C23_FullJitterRange ==
    det.jitter = "FullJitter" =>
        /\ det.op = "Apply" =>
               IF det.d > 0
               THEN 1 <= det.out /\ det.out <= det.d
               ELSE det.out = 0
        /\ det.d > 0 => {1, det.d} \subseteq FullJitterApply(det.d)

\* Full jitter on the largest Duration has returned 1.
C23_Witness ==
    /\ det.jitter = "FullJitter"
    /\ det.op = "Apply"
    /\ det.d = MaxInt64
    /\ det.out = 1

\* C24: EqualJitter.Apply(d, r) lies in [d / 2, d] for every d > 0 whatever
\* r draws, d / 2 truncated (so in [0, 1] for d = 1), and is 0 for d <= 0.
C24_EqualJitterRange ==
    det.jitter = "EqualJitter" =>
        /\ det.op = "Apply" =>
               IF det.d > 0
               THEN det.d \div 2 <= det.out /\ det.out <= det.d
               ELSE det.out = 0
        /\ det.d = 1 => EqualJitterApply(det.d) = {0, 1}

\* Equal jitter on 1 has returned 0.
C24_Witness ==
    /\ det.jitter = "EqualJitter"
    /\ det.op = "Apply"
    /\ det.d = 1
    /\ det.out = 0

\* C25: a sequence is not safe for concurrent use. Where each goroutine
\* calls Next on an instance of its own, no more than maxRetries of its
\* calls return allowed = true and no update is lost: between calls the
\* instance counts in retries and elapsed exactly the calls that returned
\* true on it, whatever the other goroutine does. (Where two goroutines
\* share the instance the state of C25_Witness is reached.)
C25_OwnInstanceSafe ==
    det.mode = "own" =>
        \A c \in Callers :
            /\ seq.options.maxRetries >= 0 =>
                   det.oks[c] <= seq.options.maxRetries
            /\ det.inst[c].retries \in {det.oks[c], det.oks[c] + 1}
            /\ det.pc[c] = "idle" =>
                   /\ det.inst[c].retries = det.oks[c]
                   /\ det.inst[c].elapsed = det.oks[c] * seq.interval

\* Two goroutines sharing a Constant with maxRetries = 1 have both been
\* returned allowed = true, and retries counts one call only.
C25_Witness ==
    /\ det.mode = "shared"
    /\ seq.options.maxRetries = 1
    /\ \A c \in Callers : det.pc[c] = "idle"
    /\ det.oks[1] + det.oks[2] = 2
    /\ det.inst[1].retries = 1

\* A call of Next on a Decorrelated with None jitter and 0 <= minInterval <=
\* maxInterval, after the first, made with a recorded prev > 0, returns a
\* delay.
DecorrelatedLater ==
    /\ seq.type = "Decorrelated"
    /\ seq.options.jitter = "NoneJitter"
    /\ 0 <= MinInterval
    /\ MinInterval <= MaxInterval
    /\ seq.retries > 0
    /\ seq.prev > 0
    /\ op' = "Next"
    /\ ret'.ok

\* C26 as claimed: for Decorrelated with None jitter and 0 <= minInterval <=
\* maxInterval, a call of Next after the first, made with a recorded prev > 0,
\* returns a delay in [minInterval, min(max(prev * factor, minInterval),
\* maxInterval)], and exactly minInterval when that upper bound is
\* <= minInterval.
C26_DecorrelatedRange ==
    [][DecorrelatedLater =>
           LET grown == (seq.prev * seq.factor.num) \div seq.factor.den
               upper == Min(Max(grown, MinInterval), MaxInterval)
           IN  /\ ret'.delay >= MinInterval
               /\ ret'.delay <= upper
               /\ upper <= MinInterval => ret'.delay = MinInterval]_vars

\* C26 as amended: the same with prev * factor the float64 product, rounded
\* to the nearest float64, which can lie above the exact product.
C26_DecorrelatedRangeRounded ==
    [][DecorrelatedLater =>
           LET grown == FloatMul(Float64(seq.prev), seq.factor) \div 2
               upper == Min(Max(grown, MinInterval), MaxInterval)
           IN  /\ ret'.delay >= MinInterval
               /\ ret'.delay <= upper
               /\ upper <= MinInterval => ret'.delay = MinInterval]_vars

\* A Decorrelated with None jitter and factor 1.5 whose first call returned
\* its initial delay and whose third call returned more than 1.5 times what
\* the second returned: the float64 product was rounded up.
C26_Witness ==
    /\ seq.type = "Decorrelated"
    /\ seq.options.jitter = "NoneJitter"
    /\ 0 <= MinInterval
    /\ MinInterval <= MaxInterval
    /\ seq.factor = [num |-> 3, den |-> 2]
    /\ Returned
    /\ calls = 3
    /\ succ = 3
    /\ sum - args.d - ret.delay > 0
    /\ 2 * ret.delay > 3 * (sum - args.d - ret.delay)
    /\ ret.delay <= FloatMul(Float64(sum - args.d - ret.delay), seq.factor) \div 2

C28_EqualCompounds ==
    [][(/\ seq.type = "Exponential"
        /\ seq.options.jitter = "EqualJitter"
        /\ seq.factor.den = 1
        /\ MinInterval <= 0
        /\ MaxInterval <= 0
        /\ seq.base >= 0
        /\ op' = "Next"
        /\ ret'.ok) =>
           LET raw == IF seq.retries = 0
                      THEN seq.base
                      ELSE seq.current * seq.factor.num
           IN  /\ ret'.delay >= raw \div 2
               /\ ret'.delay <= raw]_vars

\* C29: for every sequence type, a call of Next that returns (0, false)
\* leaves retries, elapsed and the algorithm's memory (current of
\* Exponential, prev of Decorrelated) as they were before the call, whether
\* the retry limit or the elapsed-time limit refused it.
C29_FailureKeepsState ==
    [][(op' = "Next" /\ ~ret'.ok) => (ret'.delay = 0 /\ seq' = seq)]_vars

\* An Exponential that has handed out delays and whose last call computed a
\* different, positive delay that the elapsed-time limit refused.
C29_Witness ==
    /\ seq.type = "Exponential"
    /\ Returned
    /\ ~ret.ok
    /\ seq.retries > 0
    /\ seq.retries = succ
    /\ seq.current > 0
    /\ local.d > seq.current
    /\ seq.elapsed = sum

\* C30: for Constant, and for Exponential with None jitter, termination is
\* sticky: once Next has returned (0, false), every call of Next that follows
\* returns (0, false) too, until Reset is called.
C30_StickyEnd ==
    [][(/\ \/ seq.type = "Constant"
           \/ seq.type = "Exponential" /\ seq.options.jitter = "NoneJitter"
        /\ Returned
        /\ ~ret.ok
        /\ op' = "Next") => (~ret'.ok /\ ret'.delay = 0)]_vars

\* An Exponential with None jitter refused by the elapsed-time limit twice in
\* a row, after it had handed out a delay.
C30_Witness ==
    /\ seq.type = "Exponential"
    /\ seq.options.jitter = "NoneJitter"
    /\ MaxRetries < 0
    /\ Returned
    /\ ~ret.ok
    /\ succ > 0
    /\ calls = succ + 2

\* C31: for Decorrelated with any jitter, and for Exponential with Full or
\* Equal jitter, termination is sticky: once Next has returned (0, false)
\* because of the elapsed-time limit, every call of Next that follows returns
\* (0, false) too, until Reset is called, whatever it draws.
C31_StickyEndDrawn ==
    [][(/\ \/ seq.type = "Decorrelated"
           \/ /\ seq.type = "Exponential"
              /\ seq.options.jitter \in {"FullJitter", "EqualJitter"}
        /\ Returned
        /\ ~ret.ok
        /\ MaxElapsed > 0
        /\ ~(MaxRetries >= 0 /\ seq.retries >= MaxRetries)
        /\ op' = "Next") => (~ret'.ok /\ ret'.delay = 0)]_vars

\* C32: for every sequence type with maxElapsed > 0, unlimited retries, a
\* strictly positive interval, base or initial duration and any built-in
\* jitter, a caller that goes on calling Next without Reset is returned
\* (0, false) after finitely many calls, whatever is drawn.
C32_CycleEnds == <>(det.op = "Next" /\ ~det.ret.ok)

\* The reference of C33: raise d to min if min > 0 and d < min, then lower it
\* to max if max > 0 and d > max, then return 0 if the result is negative.
clampToBounds(d, min, max) ==
    LET raised == IF min > 0 /\ d < min THEN min ELSE d
        lowered == IF max > 0 /\ raised > max THEN max ELSE raised
    IN  IF lowered < 0 THEN 0 ELSE lowered

\* What C33 says of applyBounds apart from a negative d: it equals the
\* reference, min = max = 0 passes any d >= 0 through unchanged, the result
\* is >= 0, it lies in [min, max] whenever 0 < min <= max, and applying the
\* bounds to the result returns the result.
BoundsAgree ==
    /\ det.op # "New" =>
           /\ det.out = clampToBounds(det.d, det.min, det.max)
           /\ (det.min = 0 /\ det.max = 0 /\ det.d >= 0) => det.out = det.d
           /\ det.out >= 0
           /\ (0 < det.min /\ det.min <= det.max) =>
                  (det.min <= det.out /\ det.out <= det.max)
    /\ det.op = "Again" => det.again = det.out

\* C33 as claimed: applyBounds(d, min, max) equals the reference, with what
\* follows from it, and a negative d with min > 0 yields min (not 0).
C33_ApplyBounds ==
    /\ BoundsAgree
    /\ (det.op # "New" /\ det.d < 0 /\ det.min > 0) => det.out = det.min

\* C33 as amended: a negative d with min > 0 yields min where max is unset
\* or not below min, and max where 0 < max < min.
C33_ApplyBoundsOrdered ==
    /\ BoundsAgree
    /\ (det.op # "New" /\ det.d < 0 /\ det.min > 0) =>
           det.out = IF det.max > 0 /\ det.max < det.min
                     THEN det.max
                     ELSE det.min

\* applyBounds(-3, 1, 3) returned 1, and applied to that 1 returned it again.
C33_Witness ==
    /\ det.op = "Again"
    /\ det.d = -3
    /\ det.min = 1
    /\ det.max = 3
    /\ det.out = 1
    /\ det.again = 1

====
